---- MODULE Spec2Model ----
(***************************************************************************)
(* Model of the chart-analysis pipeline of DeepSeekService                 *)
(* (backend/src/services/deepseek-services.js).                            *)
(*                                                                         *)
(* One service instance serves NumRequests analyzeTradingChart calls and   *)
(* NumConns testConnection calls.  JavaScript runs each call without       *)
(* interruption from one `await` to the next, so every action below is the *)
(* code that runs between two awaits of one call; the calls interleave at  *)
(* the awaits.  The outcomes of the awaited collaborators (sharp, the      *)
(* tesseract worker, the HTTP client) are chosen nondeterministically.     *)
(* Steps of one call that touch only its own locals are joined to the     *)
(* await before them.  A local is kept in the state until its last read    *)
(* (the image until recognize has settled, text and worker until           *)
(* extractChartDataWithOCR returns).  Wall-clock readings (Date.now(),     *)
(* new Date()) are kept as the tokens "now" and "elapsed": no step of the  *)
(* pipeline branches on them.  The prompt alone carries the reading of the *)
(* clock itself; the clock stands still in Spec and advances in            *)
(* PromptSpec, where generateTradingPrompt is called on its own.           *)
(***************************************************************************)
EXTENDS Integers, Sequences, FiniteSets, TLC

VARIABLES requestCount, req, conn, ptext, pout, clock, docs

vars == <<requestCount, req, conn, ptext, pout, clock, docs>>

(* ------------------------------ bounds -------------------------------- *)
NumRequests == 1
NumConns == 1

Reqs == 1..NumRequests
Conns == 1..NumConns

(* ------------------------- config/constants.js ------------------------ *)
TRADING_PAIRS ==
  {"XAUUSD", "EURUSD", "BTCUSD", "GBPUSD", "USDJPY", "ETHUSD", "US30", "NAS100"}

DISCLAIMER == "disclaimer"

(* ------------------------------ inputs -------------------------------- *)
\* imageBuffer is kept by its length only; symbol is any string the caller
\* passes.  server.js checks the symbol but not the length of the upload.
Inputs ==
  { [imageLen |-> 4, symbol |-> "XAUUSD", timeframe |-> "H1", tradeType |-> "intraday",
     extraNotes |-> "watch 1900"],
    [imageLen |-> 0, symbol |-> "EURUSD", timeframe |-> "H1", tradeType |-> "intraday",
     extraNotes |-> ""],
    [imageLen |-> 4, symbol |-> "DOGEUSD", timeframe |-> "H1", tradeType |-> "intraday",
     extraNotes |-> ""] }

NoInput ==
  [imageLen |-> 0, symbol |-> "", timeframe |-> "", tradeType |-> "", extraNotes |-> ""]

(* ====================================================================== *)
(* Text and numbers                                                       *)
(* A text is a sequence of one-character strings.  A number is an integer *)
(* count of millionths (Scale), exact for every decimal with at most six  *)
(* fraction digits; NaN is the empty sequence and a number n is <<n>>.    *)
(* ====================================================================== *)
Scale == 10 ^ 6

Digits == <<"0", "1", "2", "3", "4", "5", "6", "7", "8", "9">>

Range(f) == {f[i] : i \in DOMAIN f}

DigitValues == [c \in Range(Digits) |-> (CHOOSE d \in 1..10 : Digits[d] = c) - 1]

IsDigit(c) == c \in DOMAIN DigitValues

DigitVal(c) == DigitValues[c]

Min(a, b) == IF a <= b THEN a ELSE b

\* \s of a JavaScript regular expression, over the characters of the alphabet
IsSpace(c) == c \in {" ", "\n", "\t"}

Lower == <<"a", "b", "c", "d", "e", "f", "g", "h", "i", "j", "k", "l", "m",
           "n", "o", "p", "q", "r", "s", "t", "u", "v", "w", "x", "y", "z">>

Upper == <<"A", "B", "C", "D", "E", "F", "G", "H", "I", "J", "K", "L", "M",
           "N", "O", "P", "Q", "R", "S", "T", "U", "V", "W", "X", "Y", "Z">>

UpperCase == [c \in Range(Lower) |-> Upper[CHOOSE k \in 1..26 : Lower[k] = c]]

\* String.prototype.toUpperCase on one character
ToUpper(c) == IF c \in DOMAIN UpperCase THEN UpperCase[c] ELSE c

RECURSIVE DigitRun(_, _)
\* number of consecutive digits of s from position i on (a greedy \d*)
DigitRun(s, i) ==
  IF i <= Len(s) /\ IsDigit(s[i]) THEN 1 + DigitRun(s, i + 1) ELSE 0

RECURSIVE SpaceRun(_, _)
\* number of consecutive white-space characters of s from i on (a greedy \s*)
SpaceRun(s, i) ==
  IF i <= Len(s) /\ IsSpace(s[i]) THEN 1 + SpaceRun(s, i + 1) ELSE 0

IsSep(s, i) == i <= Len(s) /\ s[i] \in {".", ","}

RECURSIVE IntOf(_, _, _, _)
\* the value of the n digits of s that start at i, after the value acc
IntOf(s, i, n, acc) ==
  IF n = 0 THEN acc ELSE IntOf(s, i + 1, n - 1, acc * 10 + DigitVal(s[i]))

RECURSIVE FracOf(_, _, _, _)
\* the first n fraction digits of s from i on, in units of 1/Scale; unit is
\* the weight of the digit at i
FracOf(s, i, n, unit) ==
  IF n = 0 \/ unit = 0 THEN 0
  ELSE DigitVal(s[i]) * unit + FracOf(s, i + 1, n - 1, unit \div 10)

\* parseFloat on the strings the parser hands it: an optional minus sign,
\* the longest prefix digits[.digits]; NaN when it holds no digit
parseFloat(s) ==
  LET Magnitude(b, n, m) ==
        IntOf(s, b, n, 0) * Scale + FracOf(s, b + n + 1, m, Scale \div 10)
      Value(neg, b, n, m) ==
        IF n = 0 /\ m = 0 THEN <<>>
        ELSE <<IF neg THEN 0 - Magnitude(b, n, m) ELSE Magnitude(b, n, m)>>
      Fraction(neg, b, n) ==
        Value(neg, b, n, IF b + n <= Len(s) /\ s[b + n] = "."
                         THEN DigitRun(s, b + n + 1) ELSE 0)
      Unsigned(neg, b) == Fraction(neg, b, DigitRun(s, b))
      Signed(neg) == Unsigned(neg, IF neg THEN 2 ELSE 1)
  IN Signed(Len(s) >= 1 /\ s[1] = "-")

\* parseFloat(num.toFixed(precision)) for num > 0: num rounded to `precision`
\* decimals (ties are not among the inputs of the model)
toFixed(num, precision) ==
  LET unit == Scale \div (10 ^ precision)
  IN ((num + unit \div 2) \div unit) * unit

RECURSIVE Strip(_, _)
\* s.replace(/[chars]/g, ''): s without the characters of the set
Strip(s, chars) ==
  IF s = <<>> THEN <<>>
  ELSE IF Head(s) \in chars THEN Strip(Tail(s), chars)
  ELSE <<Head(s)>> \o Strip(Tail(s), chars)

RECURSIVE ReplaceFirstComma(_)
\* s.replace(',', '.'): only the first comma is replaced
ReplaceFirstComma(s) ==
  IF s = <<>> THEN <<>>
  ELSE IF Head(s) = "," THEN <<".">> \o Tail(s)
  ELSE <<Head(s)>> \o ReplaceFirstComma(Tail(s))

(* ====================================================================== *)
(* parseOCRText: the three price patterns                                 *)
(* Each XxxAt(s, i) is the length of the match of the pattern that starts *)
(* at position i, 0 when there is none (greedy, with the backtracking the *)
(* pattern allows).                                                       *)
(* ====================================================================== *)
\* /(\d{1,6}[.,]\d{2,5})/g
PlainAt(s, i) ==
  LET Whole(n, m) ==
        IF n >= 1 /\ IsSep(s, i + n) /\ m >= 2 THEN n + 1 + Min(5, m) ELSE 0
      After(n) == Whole(n, DigitRun(s, i + n + 1))
  IN After(Min(6, DigitRun(s, i)))

RECURSIVE GroupRun(_, _)
\* greedy (?:[.,]\d{3})* from position p: the number of groups taken
GroupRun(s, p) ==
  IF IsSep(s, p) /\ DigitRun(s, p + 1) >= 3 THEN 1 + GroupRun(s, p + 4) ELSE 0

RECURSIVE GroupedTail(_, _, _)
\* the largest k' <= k with [.,]\d{2} at p + 4k' (the groups given back by
\* backtracking), as the length matched from p; -1 when none
GroupedTail(s, p, k) ==
  IF IsSep(s, p + 4 * k) /\ DigitRun(s, p + 4 * k + 1) >= 2 THEN 4 * k + 3
  ELSE IF k = 0 THEN 0 - 1
  ELSE GroupedTail(s, p, k - 1)

\* /(\d{1,3}(?:[.,]\d{3})*[.,]\d{2})/g
GroupedAt(s, i) ==
  LET Whole(n, t) == IF n >= 1 /\ t > 0 THEN n + t ELSE 0
      After(n) == Whole(n, GroupedTail(s, i + n, GroupRun(s, i + n)))
  IN After(Min(3, DigitRun(s, i)))

Currency == {"$", "€", "£", "¥"}

\* /([$€£¥]\s*(\d+[.,]\d+))/gi
CurrencyAt(s, i) ==
  LET Whole(w, n, m) ==
        IF i <= Len(s) /\ s[i] \in Currency /\ n >= 1
           /\ IsSep(s, i + 1 + w + n) /\ m >= 1
        THEN 1 + w + n + 1 + m ELSE 0
      AfterDigits(w, n) == Whole(w, n, DigitRun(s, i + 1 + w + n + 1))
      AfterSpace(w) == AfterDigits(w, DigitRun(s, i + 1 + w))
  IN AfterSpace(SpaceRun(s, i + 1))

pricePatterns == <<"plain", "grouped", "currency">>

MatchAt(pattern, s, i) ==
  CASE pattern = "plain" -> PlainAt(s, i)
    [] pattern = "grouped" -> GroupedAt(s, i)
    [] pattern = "currency" -> CurrencyAt(s, i)

SetMin(S) == CHOOSE x \in S : \A y \in S : x <= y

RECURSIVE MatchFrom(_, _, _, _)
\* the matches from position i on, left to right, each search resuming where
\* the last match ended; starts holds the positions where the pattern matches
MatchFrom(pattern, s, starts, i) ==
  LET Take(j, n) ==
        <<SubSeq(s, j, j + n - 1)>> \o MatchFrom(pattern, s, starts, j + n)
      Leftmost(j) == Take(j, MatchAt(pattern, s, j))
      Search(later) == IF later = {} THEN <<>> ELSE Leftmost(SetMin(later))
  IN Search({j \in starts : j >= i})

\* text.match(pattern) with the g flag
MatchAll(pattern, s) ==
  MatchFrom(pattern, s, {j \in 1..Len(s) : MatchAt(pattern, s, j) > 0}, 1)

\* the precision of line 231
PricePrecision(num) == IF num < 10 * Scale THEN 5 ELSE IF num < 1000 * Scale THEN 4 ELSE 2

\* lines 225-234: the numbers one match pushes onto allPrices (none or one)
PriceOfMatch(match) ==
  LET clean == Strip(match, Currency \cup {",", " ", "\n", "\t"})
      normalized == ReplaceFirstComma(clean)
      Pushed(num) ==
        IF num # <<>> /\ num[1] > 0
        THEN <<toFixed(num[1], PricePrecision(num[1]))>>
        ELSE <<>>
  IN Pushed(parseFloat(normalized))

RECURSIVE PricesOfMatches(_)
PricesOfMatches(matches) ==
  IF matches = <<>> THEN <<>>
  ELSE PriceOfMatch(Head(matches)) \o PricesOfMatches(Tail(matches))

\* lines 219-236: allPrices after the three passes
AllPrices(s) ==
  PricesOfMatches(MatchAll("plain", s))
    \o PricesOfMatches(MatchAll("grouped", s))
    \o PricesOfMatches(MatchAll("currency", s))

RECURSIVE SortAsc(_)
\* [...set].sort((a, b) => a - b)
SortAsc(S) ==
  IF S = {} THEN <<>>
  ELSE LET Cons(least) == <<least>> \o SortAsc(S \ {least}) IN Cons(SetMin(S))

\* .slice(0, n)
Slice(q, n) == SubSeq(q, 1, Min(n, Len(q)))

\* the mutant of PriceLevels without the slice of line 241
PriceLevels_uncapped(allPrices) == SortAsc(Range(allPrices))

\* lines 239-241
PriceLevels(allPrices) == Slice(SortAsc(Range(allPrices)), 15)

(* ====================================================================== *)
(* parseOCRText: the labelled indicator patterns                          *)
(* ====================================================================== *)
\* the literal `label` at position i, under the i flag
LabelAt(s, i, label) ==
  /\ i + Len(label) - 1 <= Len(s)
  /\ \A k \in 1..Len(label) : ToUpper(s[i + k - 1]) = ToUpper(label[k])

RECURSIVE ClassRun(_, _)
\* greedy [\s:=]* from position i
ClassRun(s, i) ==
  IF i <= Len(s) /\ (IsSpace(s[i]) \/ s[i] \in {":", "="})
  THEN 1 + ClassRun(s, i + 1) ELSE 0

\* ([-]?\d{1,maxInt}(?:[.,]\d{1,maxFrac})?) at position p: its length, 0 when
\* it does not match; the sign is part of the pattern only when `signed`
NumberAt(s, p, maxInt, maxFrac, signed) ==
  LET Whole(sg, n, m) ==
        IF n = 0 THEN 0
        ELSE IF IsSep(s, p + sg + n) /\ m >= 1 THEN sg + n + 1 + Min(maxFrac, m)
        ELSE sg + n
      AfterDigits(sg, n) == Whole(sg, n, DigitRun(s, p + sg + n + 1))
      AfterSign(sg) == AfterDigits(sg, Min(maxInt, DigitRun(s, p + sg)))
  IN AfterSign(IF signed /\ p <= Len(s) /\ s[p] = "-" THEN 1 ELSE 0)

\* label[\s:=]*(number) at position i: <<capture, length of the match>>, or
\* <<>> when the pattern does not match at i
LabeledAt(s, i, label, maxInt, maxFrac, signed) ==
  LET Capture(p, n) ==
        IF n > 0 THEN <<SubSeq(s, p, p + n - 1), p + n - i>> ELSE <<>>
      AfterLabel(p) == Capture(p, NumberAt(s, p, maxInt, maxFrac, signed))
  IN IF LabelAt(s, i, label)
     THEN AfterLabel(i + Len(label) + ClassRun(s, i + Len(label)))
     ELSE <<>>

\* text.match(pattern) without the g flag: the capture of the leftmost
\* match, as <<capture>>; <<>> when there is no match (null)
FirstLabeled(s, label, maxInt, maxFrac, signed) ==
  LET Leftmost(starts) ==
        IF starts = {} THEN <<>>
        ELSE <<LabeledAt(s, SetMin(starts), label, maxInt, maxFrac, signed)[1]>>
  IN Leftmost({j \in 1..Len(s) :
                 LabeledAt(s, j, label, maxInt, maxFrac, signed) # <<>>})

L_RSI == <<"R", "S", "I">>

L_RSI_FULL ==
  <<"R", "e", "l", "a", "t", "i", "v", "e", " ", "S", "t", "r", "e", "n", "g",
    "t", "h", " ", "I", "n", "d", "e", "x">>

L_MACD == <<"M", "A", "C", "D">>

\* lines 244-247
rsiPatterns == <<L_RSI, L_RSI_FULL>>

\* lines 250-256 for one pattern: <<value>> when the first match of the pattern
\* holds a value in [0, 100], <<>> otherwise
RsiOfPattern(s, label) ==
  LET InRange(value) ==
        IF value # <<>> /\ value[1] >= 0 /\ value[1] <= 100 * Scale THEN value ELSE <<>>
      ValueOf(match) ==
        IF match = <<>> THEN <<>> ELSE parseFloat(ReplaceFirstComma(match[1]))
  IN InRange(ValueOf(FirstLabeled(s, label, 3, 2, FALSE)))

RECURSIVE RsiOf(_, _)
\* lines 249-258: the loop over rsiPatterns from pattern k on, with its break
RsiOf(s, k) ==
  IF k > Len(rsiPatterns) THEN <<>>
  ELSE LET Break(value) == IF value # <<>> THEN value ELSE RsiOf(s, k + 1)
       IN Break(RsiOfPattern(s, rsiPatterns[k]))

\* lines 261-268
MacdOf(s) ==
  LET ValueOf(macdMatch) ==
        IF macdMatch = <<>> THEN <<>> ELSE parseFloat(ReplaceFirstComma(macdMatch[1]))
  IN ValueOf(FirstLabeled(s, L_MACD, 6, 5, TRUE))

\* the alternation (MA|SMA|EMA) of line 271, in its order
maTags == << <<"M", "A">>, <<"S", "M", "A">>, <<"E", "M", "A">> >>

TagName(tag) ==
  CASE tag = <<"M", "A">> -> "MA"
    [] tag = <<"S", "M", "A">> -> "SMA"
    [] tag = <<"E", "M", "A">> -> "EMA"

RECURSIVE MaAt(_, _, _)
\* the match of maPattern at position i, trying the tags from k on:
\* <<type, capture, length>>, <<>> when none matches
MaAt(s, i, k) ==
  IF k > Len(maTags) THEN <<>>
  ELSE LET Tagged(m) ==
             IF m # <<>> THEN <<TagName(maTags[k]), m[1], m[2]>>
             ELSE MaAt(s, i, k + 1)
       IN Tagged(LabeledAt(s, i, maTags[k], 6, 5, FALSE))

RECURSIVE MaLoop(_, _, _, _)
\* lines 272-279: the exec loop from lastIndex i - 1, over the indicators so
\* far; a later occurrence of a tag overwrites an earlier one.  starts holds
\* the positions where maPattern matches.
MaLoop(s, starts, i, indicators) ==
  LET Stored(maMatch, value) ==
        IF value # <<>> THEN (maMatch[1] :> value[1]) @@ indicators ELSE indicators
      Exec(j, maMatch) ==
        MaLoop(s, starts, j + maMatch[3],
               Stored(maMatch, parseFloat(ReplaceFirstComma(maMatch[2]))))
      Search(later) ==
        IF later = {} THEN indicators
        ELSE Exec(SetMin(later), MaAt(s, SetMin(later), 1))
  IN Search({j \in starts : j >= i})

\* an object with no key
NoKeys == [k \in {} |-> 0]

\* lines 243-279: the indicators object
Indicators(s) ==
  LET Key(name, value) == IF value # <<>> THEN name :> value[1] ELSE NoKeys
      rsi == Key("RSI", RsiOf(s, 1))
      macd == Key("MACD", MacdOf(s))
      maStarts == {j \in 1..Len(s) : MaAt(s, j, 1) # <<>>}
  IN MaLoop(s, maStarts, 1, macd @@ rsi)

\* the mutant of HasData that looks at the price levels only
HasData_pricesOnly(priceLevels, indicators) == Len(priceLevels) > 0

\* lines 282-284
HasData(priceLevels, indicators) ==
  Len(priceLevels) > 0 \/ Cardinality(DOMAIN indicators) > 0

\* lines 200-291, for a text that is a string
parseOCRText(text) ==
  LET Data(priceLevels, indicators) ==
        [rawText |-> Slice(text, 1500),
         extractedData |-> [priceLevels |-> priceLevels,
                            indicators |-> indicators,
                            labels |-> <<>>,
                            hasData |-> HasData(priceLevels, indicators)]]
  IN Data(PriceLevels(AllPrices(text)), Indicators(text))

\* lines 188-196: the result extractChartDataWithOCR returns from its catch
EmptyOCRResult ==
  [rawText |-> <<>>,
   extractedData |-> [priceLevels |-> <<>>, indicators |-> NoKeys,
                      labels |-> <<>>, hasData |-> FALSE]]

(* ====================================================================== *)
(* The remote reply and its validation                                    *)
(* A reply body is a sequence of tokens: a code fence with or without its *)
(* language tag (fence_json, fence), the word json, a JSON document, or   *)
(* prose.  A document is known by its name.                               *)
(* ====================================================================== *)
DocNames == {"doc_buy", "doc_wait", "doc_no_decision", "doc_no_vision"}

\* JSON.parse of one document token: its top-level fields; a field that may
\* be absent is a set with at most one element
DocOf(token) ==
  [decision |->
     CASE token = "doc_buy" -> {[action |-> "BUY", probability |-> "75%",
                                 reason |-> <<"support bounce">>]}
       [] token = "doc_wait" -> {[action |-> "WAIT", probability |-> "40%",
                                  reason |-> <<"no pattern">>]}
       [] token = "doc_no_vision" -> {[action |-> "SELL", probability |-> "80%",
                                       reason |-> <<"resistance rejection">>]}
       [] OTHER -> {},
   vision_summary |->
     IF token \in {"doc_buy", "doc_wait", "doc_no_decision"}
     THEN {[trend_structure |-> "bullish", trend_confidence |-> "medium"]}
     ELSE {}]

\* response.data of client.post: choices holds the message contents
Replies ==
  { [choices |-> << <<"fence_json", "doc_buy", "fence">> >>, usage |-> {[total_tokens |-> 900]}],
    [choices |-> << <<"doc_wait">> >>, usage |-> {}],
    [choices |-> << <<"json", "doc_no_decision">> >>, usage |-> {}],
    [choices |-> << <<"doc_no_vision">> >>, usage |-> {}],
    [choices |-> << <<"prose", "doc_buy">> >>, usage |-> {}],
    [choices |-> << >>, usage |-> {}] }

\* the errors client.post rejects with (its timeout is DEEPSEEK_TIMEOUT)
TransportErrors ==
  { [message |-> <<"timeout of 45000ms exceeded">>],
    [message |-> <<"Request failed with status code 401">>] }

\* lines 510-559; symbol, timeframe and tradeType are not read by the body
getFallbackAnalysis(symbol, timeframe, tradeType, error, requestId) ==
  [vision_summary |-> {[trend_structure |-> "Analysis failed", trend_confidence |-> "low"]},
   decision |-> {[action |-> "HOLD", probability |-> "0%",
                  reason |-> <<"Technical analysis failed: ">>
                             \o (IF error.message # <<>> THEN error.message
                                 ELSE <<"Insufficient or unclear chart data">>)]},
   risk_assessment |-> {[level |-> "high", recommended_position |-> "none",
                         timeframe_suitability |-> "poor"]},
   disclaimer |-> {},
   api_usage |-> {},
   error |-> {[message |-> IF error.message # <<>> THEN error.message
                           ELSE <<"Analysis failed">>,
               requestId |-> requestId,
               timestamp |-> "now"]},
   metadata |-> {}]

\* lines 480-484: the fences and a leading json tag removed
CleanContent(content) ==
  LET unfenced == Strip(content, {"fence_json", "fence"})
  IN IF unfenced # <<>> /\ Head(unfenced) = "json" THEN Tail(unfenced) ELSE unfenced

\* lines 476-492: the error parseAIResponse catches, <<>> when there is none
ParseError(apiResponse) ==
  IF Len(apiResponse.choices) = 0
  THEN <<[message |-> <<"Cannot read properties of undefined">>]>>
  ELSE LET cleanedContent == CleanContent(apiResponse.choices[1])
       IN IF Len(cleanedContent) # 1 \/ cleanedContent[1] \notin DocNames
          THEN <<[message |-> <<"Unexpected token in JSON">>]>>
          ELSE IF DocOf(cleanedContent[1]).decision = {}
                  \/ DocOf(cleanedContent[1]).vision_summary = {}
          THEN <<[message |-> <<"Invalid response structure from AI">>]>>
          ELSE <<>>

\* the mutant of parseAIResponse that leaves out the structure check of
\* lines 490-492
parseAIResponse_unchecked(apiResponse, requestId) ==
  IF Len(apiResponse.choices) = 0
     \/ Len(CleanContent(apiResponse.choices[1])) # 1
     \/ CleanContent(apiResponse.choices[1])[1] \notin DocNames
  THEN getFallbackAnalysis("Unknown", "Unknown", "Unknown", ParseError(apiResponse)[1], requestId)
  ELSE LET parsedData == DocOf(CleanContent(apiResponse.choices[1])[1])
       IN [vision_summary |-> parsedData.vision_summary,
           decision |-> parsedData.decision,
           risk_assessment |-> {},
           disclaimer |-> {DISCLAIMER},
           api_usage |-> apiResponse.usage,
           error |-> {},
           metadata |-> {}]

\* lines 474-508
parseAIResponse(apiResponse, requestId) ==
  IF ParseError(apiResponse) # <<>>
  THEN getFallbackAnalysis("Unknown", "Unknown", "Unknown", ParseError(apiResponse)[1],
                           requestId)
  ELSE LET parsedData == DocOf(CleanContent(apiResponse.choices[1])[1])
       IN [vision_summary |-> parsedData.vision_summary,
           decision |-> parsedData.decision,
           risk_assessment |-> {},
           disclaimer |-> {DISCLAIMER},
           api_usage |-> apiResponse.usage,
           error |-> {},
           metadata |-> {}]

\* lines 334-472: the parts of the instruction document that vary; line 337
\* reads the clock and line 346 writes the reading into the document
generateTradingPrompt(ocrData, symbol, timeframe, tradeType, extraNotes) ==
  LET hasData == ocrData.extractedData.hasData
  IN [symbol |-> symbol,
      timeframe |-> timeframe,
      strategy |-> tradeType,
      currentTime |-> clock,
      dataQuality |-> IF hasData THEN "GOOD" ELSE "POOR",
      priceLevels |-> IF hasData THEN ocrData.extractedData.priceLevels ELSE <<>>,
      indicators |-> IF hasData THEN ocrData.extractedData.indicators ELSE NoKeys,
      userNotes |-> IF hasData THEN extraNotes ELSE ""]

(* ====================================================================== *)
(* analyzeTradingChart: the state of one call                             *)
(* ====================================================================== *)
\* what worker.recognize resolves with: data.text, a string or undefined
T_DATA ==
  <<"R", "S", "I", ":", " ", "7", "2", ".", "5", " ", "1", ",", "2", "3", "4", ".", "5", "6">>

T_BLANK == <<"c", "h", "a", "r", "t">>

Recognized ==
  { [defined |-> TRUE, chars |-> T_DATA],
    [defined |-> TRUE, chars |-> T_BLANK],
    [defined |-> FALSE, chars |-> <<>>] }

NoText == [defined |-> FALSE, chars |-> <<>>]

NoPrompt == generateTradingPrompt(EmptyOCRResult, "", "", "", "")

\* a call that has not been made yet
IdleCall ==
  [pc |-> "idle", hung |-> FALSE, input |-> NoInput, requestId |-> 0,
   processedImage |-> "none", worker |-> FALSE, session |-> "none",
   acquires |-> 0, terminateCalls |-> 0, text |-> NoText,
   prompt |-> NoPrompt, remoteCalls |-> 0, stages |-> <<>>,
   outcome |-> "pending", result |-> {}]

\* the mutant of NextRequestId that loses the increment
NextRequestId_lost(count) == count

\* ++this.requestCount (lines 51, 64, 70): the value the call receives
NextRequestId(count) == count + 1

\* lines 105-117: the result of the try block
Annotate(analysisResult, q) ==
  [analysisResult EXCEPT
     !.metadata = {[requestId |-> q.requestId,
                    processingTime |-> "elapsed",
                    apiProvider |-> "DeepSeek",
                    symbol |-> q.input.symbol,
                    timeframe |-> q.input.timeframe,
                    tradeType |-> q.input.tradeType,
                    timestamp |-> "now",
                    version |-> "1.0.0"]}]

\* the mutant of AnalyzeCaught that lets the error go on to the caller
AnalyzeCaught_rethrow(q, error) ==
  [q EXCEPT !.pc = "returned", !.outcome = "threw", !.result = {},
            !.stages = @ \o <<"Fallback">>]

\* lines 119-124: the catch of analyzeTradingChart
AnalyzeCaught(q, error) ==
  [q EXCEPT !.pc = "returned",
            !.outcome = "returned",
            !.result = {getFallbackAnalysis(q.input.symbol, q.input.timeframe,
                                            q.input.tradeType, error, q.requestId)},
            !.stages = @ \o <<"Fallback">>]

\* lines 89-99 and 293-317: extractChartDataWithOCR has returned ocrData; the
\* prompt is built and the request is posted.  parsed tells whether
\* parseOCRText was called.  The locals of extractChartDataWithOCR are gone.
AfterExtract(q, ocrData, parsed) ==
  [q EXCEPT !.pc = "invoke",
            !.worker = FALSE,
            !.text = NoText,
            !.processedImage = "none",
            !.prompt = generateTradingPrompt(ocrData, q.input.symbol, q.input.timeframe,
                                             q.input.tradeType, q.input.extraNotes),
            !.remoteCalls = @ + 1,
            !.stages = @ \o (IF parsed THEN <<"Parsing">> ELSE <<>>)
                         \o <<"Prompting", "Invoking">>]

\* the mutant of ExtractCaught that lets the OCR error go on to the caller
ExtractCaught_propagate(q) ==
  AnalyzeCaught(q, [message |-> <<"OCR extraction failed">>])

\* lines 187-196: the catch of extractChartDataWithOCR after its release
ExtractCaught(q) == AfterExtract(q, EmptyOCRResult, FALSE)

\* lines 183-185: the catch of extractChartDataWithOCR is entered; a worker
\* that is not null is terminated first
ExtractCatch(q) ==
  IF q.worker
  THEN [q EXCEPT !.pc = "catchTerminate", !.terminateCalls = @ + 1,
                 !.processedImage = "none", !.text = NoText]
  ELSE ExtractCaught(q)

\* the mutant of InvokeFailed that posts the request a second time
InvokeFailed_retry(q, error) ==
  IF q.remoteCalls < 2
  THEN [q EXCEPT !.remoteCalls = @ + 1]
  ELSE AnalyzeCaught(q, [message |-> <<"AI service error: ">> \o error.message])

\* lines 323-331: the catch of analyzeWithAI wraps the error and throws it on
InvokeFailed(q, error) ==
  AnalyzeCaught(q, [message |-> <<"AI service error: ">> \o error.message])

\* lines 319-321 and 101-117: the reply is validated and the result annotated
InvokeDone(q, apiResponse) ==
  LET analysisResult == parseAIResponse(apiResponse, q.requestId)
  IN [q EXCEPT !.pc = "returned",
               !.outcome = "returned",
               !.result = {Annotate(analysisResult, q)},
               !.stages = @ \o <<"Validating",
                                 IF ParseError(apiResponse) = <<>> THEN "Done"
                                 ELSE "Fallback">>]

\* lines 75-86: the inputs are checked and preprocessImage is called
StartCall(q) ==
  IF q.input.imageLen = 0
  THEN AnalyzeCaught(q, [message |-> <<"Empty image buffer">>])
  ELSE IF q.input.symbol \notin TRADING_PAIRS
  THEN AnalyzeCaught(q, [message |-> <<"Invalid symbol: ", q.input.symbol>>])
  ELSE [q EXCEPT !.pc = "preprocess", !.stages = @ \o <<"Preprocessing">>]

\* parseOCRText of each text recognize can resolve with, computed once
ParsedText ==
  [text \in {t \in Recognized : t.defined} |-> parseOCRText(text.chars)]

\* lines 177-180: the session is released, worker is set to null and the text
\* is parsed; text.substring of line 202 throws on a text that is no string,
\* and the catch of extractChartDataWithOCR then finds worker null
Extracted(q) ==
  LET released == [q EXCEPT !.session = "released", !.worker = FALSE]
  IN IF q.text.defined
     THEN AfterExtract(released, ParsedText[q.text], TRUE)
     ELSE AfterExtract(released, EmptyOCRResult, TRUE)

(* ====================================================================== *)
(* The actions of analyzeTradingChart, one per settled await              *)
(* ====================================================================== *)
\* lines 69-86
Start(r, inp) ==
  /\ req[r].pc = "idle"
  /\ requestCount' = NextRequestId(requestCount)
  /\ req' = [req EXCEPT ![r] =
               StartCall([@ EXCEPT !.input = inp,
                                   !.requestId = NextRequestId(requestCount),
                                   !.stages = <<"Received">>])]
  /\ UNCHANGED <<conn, ptext, pout, clock, docs>>

\* the mutant of PreprocessDone in which a failure of sharp is not absorbed
PreprocessDone_fatal(r, ok) ==
  /\ req[r].pc = "preprocess"
  /\ req' = [req EXCEPT ![r] =
               IF ok
               THEN [@ EXCEPT !.pc = "createWorker", !.processedImage = "processed",
                              !.stages = @ \o <<"Extracting">>]
               ELSE AnalyzeCaught(@, [message |-> <<"Input buffer contains unsupported image format">>])]
  /\ UNCHANGED <<requestCount, conn, ptext, pout, clock, docs>>

\* lines 127-155 and 157-161: sharp settles; on an error the original bytes
\* go on.  extractChartDataWithOCR then asks for a worker.
PreprocessDone(r, ok) ==
  /\ req[r].pc = "preprocess"
  /\ req' = [req EXCEPT ![r] =
               [@ EXCEPT !.pc = "createWorker",
                         !.processedImage = IF ok THEN "processed" ELSE "original",
                         !.stages = @ \o <<"Extracting">>]]
  /\ UNCHANGED <<requestCount, conn, ptext, pout, clock, docs>>

OcrAwaits == {"createWorker", "setParameters", "recognize", "terminate", "catchTerminate"}

AtOcr(r, pc) == req[r].pc = pc /\ ~req[r].hung

\* line 161 resolves: the session is acquired
CreateWorkerOk(r) ==
  /\ AtOcr(r, "createWorker")
  /\ req' = [req EXCEPT ![r] =
               [@ EXCEPT !.pc = "setParameters", !.worker = TRUE,
                         !.session = "live", !.acquires = @ + 1]]
  /\ UNCHANGED <<requestCount, conn, ptext, pout, clock, docs>>

\* line 161 rejects
CreateWorkerFail(r) ==
  /\ AtOcr(r, "createWorker")
  /\ req' = [req EXCEPT ![r] = ExtractCatch(@)]
  /\ UNCHANGED <<requestCount, conn, ptext, pout, clock, docs>>

\* lines 163-175: setParameters resolves and the image is handed to recognize
SetParametersOk(r) ==
  /\ AtOcr(r, "setParameters")
  /\ req' = [req EXCEPT ![r] = [@ EXCEPT !.pc = "recognize"]]
  /\ UNCHANGED <<requestCount, conn, ptext, pout, clock, docs>>

\* lines 163-167 reject
SetParametersFail(r) ==
  /\ AtOcr(r, "setParameters")
  /\ req' = [req EXCEPT ![r] = ExtractCatch(@)]
  /\ UNCHANGED <<requestCount, conn, ptext, pout, clock, docs>>

\* lines 169-177: recognize resolves with data.text and terminate is called
RecognizeOk(r, text) ==
  /\ AtOcr(r, "recognize")
  /\ req' = [req EXCEPT ![r] =
               [@ EXCEPT !.pc = "terminate", !.text = text, !.terminateCalls = @ + 1,
                         !.processedImage = "none"]]
  /\ UNCHANGED <<requestCount, conn, ptext, pout, clock, docs>>

\* lines 169-175 reject
RecognizeFail(r) ==
  /\ AtOcr(r, "recognize")
  /\ req' = [req EXCEPT ![r] = ExtractCatch(@)]
  /\ UNCHANGED <<requestCount, conn, ptext, pout, clock, docs>>

\* line 177 resolves
TerminateOk(r) ==
  /\ AtOcr(r, "terminate")
  /\ req' = [req EXCEPT ![r] = Extracted(@)]
  /\ UNCHANGED <<requestCount, conn, ptext, pout, clock, docs>>

\* line 177 rejects: the session is not released and worker is not yet null
TerminateFail(r) ==
  /\ AtOcr(r, "terminate")
  /\ req' = [req EXCEPT ![r] = ExtractCatch(@)]
  /\ UNCHANGED <<requestCount, conn, ptext, pout, clock, docs>>

\* line 184 resolves
CatchTerminateOk(r) ==
  /\ AtOcr(r, "catchTerminate")
  /\ req' = [req EXCEPT ![r] = ExtractCaught([@ EXCEPT !.session = "released"])]
  /\ UNCHANGED <<requestCount, conn, ptext, pout, clock, docs>>

\* line 184 rejects and the empty catch swallows the error
CatchTerminateFail(r) ==
  /\ AtOcr(r, "catchTerminate")
  /\ req' = [req EXCEPT ![r] = ExtractCaught(@)]
  /\ UNCHANGED <<requestCount, conn, ptext, pout, clock, docs>>

\* a promise of the OCR worker that never settles: lines 161-184 await each
\* of them without a timeout (OCR_TIMEOUT of constants.js is never read)
OcrHang(r) ==
  /\ req[r].pc \in OcrAwaits
  /\ ~req[r].hung
  /\ req' = [req EXCEPT ![r] = [@ EXCEPT !.hung = TRUE]]
  /\ UNCHANGED <<requestCount, conn, ptext, pout, clock, docs>>

\* line 299 resolves
InvokeOk(r, apiResponse) ==
  /\ req[r].pc = "invoke"
  /\ req' = [req EXCEPT ![r] = InvokeDone(@, apiResponse)]
  /\ UNCHANGED <<requestCount, conn, ptext, pout, clock, docs>>

\* line 299 rejects (transport, status or the client's timeout)
InvokeFail(r, error) ==
  /\ req[r].pc = "invoke"
  /\ req' = [req EXCEPT ![r] = InvokeFailed(@, error)]
  /\ UNCHANGED <<requestCount, conn, ptext, pout, clock, docs>>

(* ====================================================================== *)
(* testConnection                                                         *)
(* ====================================================================== *)
\* of the object testConnection returns only requestId is kept
IdleConn == [pc |-> "idle", requestId |-> 0]

\* line 38: the request is sent
ConnStart(c) ==
  /\ conn[c].pc = "idle"
  /\ conn' = [conn EXCEPT ![c] = [@ EXCEPT !.pc = "get"]]
  /\ UNCHANGED <<requestCount, req, ptext, pout, clock, docs>>

\* lines 43-52 (a status below 500) and 53-65 (an error): either way the
\* counter is incremented once
ConnDone(c, status) ==
  /\ conn[c].pc = "get"
  /\ requestCount' = NextRequestId(requestCount)
  /\ conn' = [conn EXCEPT ![c] =
                [pc |-> "returned", requestId |-> NextRequestId(requestCount)]]
  /\ UNCHANGED <<req, ptext, pout, clock, docs>>

Statuses == {200, 401, 503}

(* ====================================================================== *)
(* The service                                                            *)
(* ====================================================================== *)
\* lines 32-33
Init ==
  /\ clock = 0
  /\ docs = <<>>
  /\ requestCount = 0
  /\ req = [r \in Reqs |-> IdleCall]
  /\ conn = [c \in Conns |-> IdleConn]
  /\ ptext = <<>>
  /\ pout = {}

Step(r) ==
  \/ \E inp \in Inputs : Start(r, inp)
  \/ \E ok \in BOOLEAN : PreprocessDone(r, ok)
  \/ CreateWorkerOk(r)
  \/ CreateWorkerFail(r)
  \/ SetParametersOk(r)
  \/ SetParametersFail(r)
  \/ \E text \in Recognized : RecognizeOk(r, text)
  \/ RecognizeFail(r)
  \/ TerminateOk(r)
  \/ TerminateFail(r)
  \/ CatchTerminateOk(r)
  \/ CatchTerminateFail(r)
  \/ \E apiResponse \in Replies : InvokeOk(r, apiResponse)
  \/ \E error \in TransportErrors : InvokeFail(r, error)

ConnStep(c) ==
  \/ ConnStart(c)
  \/ \E status \in Statuses : ConnDone(c, status)

Next ==
  \/ \E r \in Reqs : Step(r)
  \/ \E r \in Reqs : OcrHang(r)
  \/ \E c \in Conns : ConnStep(c)

Spec == Init /\ [][Next]_vars

\* the event loop runs every continuation whose promise has settled
FairSpec ==
  /\ Spec
  /\ \A r \in Reqs : WF_vars(Step(r))
  /\ \A c \in Conns : WF_vars(ConnStep(c))

(* ====================================================================== *)
(* parseOCRText on its own: the texts it is applied to                    *)
(* ====================================================================== *)
MaxTokens == 2
LadderLen == 17

\* the price 1.kk followed by a space
Rung(k) == <<"1", ".", Digits[(k \div 10) + 1], Digits[(k % 10) + 1], " ">>

RECURSIVE Ladder(_)
\* the prices 1.n, ..., 1.02, 1.01 in descending order
Ladder(n) == IF n = 0 THEN <<>> ELSE Rung(n) \o Ladder(n - 1)

Vocabulary ==
  { <<"1", ".", "5", "0">>,
    <<"$", "2", ".", "5">>,
    <<"1", ",", "2", "3", "4", ".", "5", "6">>,
    <<"0", ".", "0", "0">>,
    <<"$", "0", ".", "0", "0", "0", "0", "0", "1">>,
    <<"R", "S", "I", " ", "1", "5", "0">>,
    <<"r", "s", "i", ":", " ", "7", "2", ".", "5">>,
    <<"E", "M", "A", ":", " ", "1", ".", "2", "0", "5", "0", "0">>,
    <<"M", "A", "C", "D", " ", "-", "3">>,
    Ladder(LadderLen) }

RECURSIVE Join(_)
\* the tokens of a sequence, one space between two of them
Join(tokens) ==
  IF tokens = <<>> THEN <<>>
  ELSE IF Len(tokens) = 1 THEN tokens[1]
  ELSE tokens[1] \o <<" ">> \o Join(Tail(tokens))

Texts == {Join(tokens) : tokens \in UNION {[1..n -> Vocabulary] : n \in 0..MaxTokens}}

ParseInit ==
  /\ clock = 0
  /\ docs = <<>>
  /\ requestCount = 0
  /\ req = [r \in Reqs |-> IdleCall]
  /\ conn = [c \in Conns |-> IdleConn]
  /\ ptext \in Texts
  /\ pout = {}

\* parseOCRText(ptext) is called and returns
ParseText ==
  /\ pout = {}
  /\ pout' = {parseOCRText(ptext)}
  /\ UNCHANGED <<requestCount, req, conn, ptext, clock, docs>>

ParseNext == ParseText

ParseSpec == ParseInit /\ [][ParseNext]_vars

(* ====================================================================== *)
(* generateTradingPrompt on its own: calls made while the clock advances  *)
(* ====================================================================== *)
MaxClock == 2
MaxRenders == 2

\* the OCR results the prompt is built from
OcrResults == {EmptyOCRResult} \cup {ParsedText[t] : t \in DOMAIN ParsedText}

PromptInit ==
  /\ clock = 0
  /\ docs = <<>>
  /\ requestCount = 0
  /\ req = [r \in Reqs |-> IdleCall]
  /\ conn = [c \in Conns |-> IdleConn]
  /\ ptext = <<>>
  /\ pout = {}

\* time passes between two calls
Tick ==
  /\ clock < MaxClock
  /\ clock' = clock + 1
  /\ UNCHANGED <<requestCount, req, conn, ptext, pout, docs>>

\* generateTradingPrompt is called and returns its document
Render(ocrData, inp) ==
  /\ Len(docs) < MaxRenders
  /\ docs' = Append(docs,
                    [ocrData |-> ocrData, input |-> inp,
                     document |-> generateTradingPrompt(ocrData, inp.symbol, inp.timeframe,
                                                        inp.tradeType, inp.extraNotes)])
  /\ UNCHANGED <<requestCount, req, conn, ptext, pout, clock>>

PromptNext ==
  \/ Tick
  \/ \E ocrData \in OcrResults, inp \in Inputs : Render(ocrData, inp)

PromptSpec == PromptInit /\ [][PromptNext]_vars

(* ====================================================================== *)
(* Properties                                                             *)
(* ====================================================================== *)
Returned(r) == req[r].pc = "returned"

\* the stage a call was in when it went to Fallback, "none" when it has not
FailedStage(r) ==
  LET st == req[r].stages
  IN IF Len(st) >= 2 /\ st[Len(st)] = "Fallback" THEN st[Len(st) - 1] ELSE "none"

IsHold(res) == res.decision # {} /\ \A d \in res.decision : d.action = "HOLD"

ErrorPopulated(res, r) ==
  /\ res.error # {}
  /\ \A e \in res.error :
       e.message # <<>> /\ e.requestId = req[r].requestId /\ e.timestamp = "now"

\* C1: a call whose remote invocation or reply validation failed returns a
\* result with decision.action = "HOLD" and an error block holding a message,
\* the call's requestId and a timestamp.
C1_FailureYieldsHold ==
  \A r \in Reqs :
    FailedStage(r) \in {"Invoking", "Validating"} =>
      /\ req[r].result # {}
      /\ \A res \in req[r].result : IsHold(res) /\ ErrorPopulated(res, r)

\* a call returned from a validation failure: the reply had no decision block
C1_Witness ==
  \E r \in Reqs :
    /\ Returned(r)
    /\ FailedStage(r) = "Validating"
    /\ \E res \in req[r].result :
         \E e \in res.error : e.message = <<"Invalid response structure from AI">>

\* C2: whatever fails in preprocessing, OCR, parsing, invocation or
\* validation, analyzeTradingChart hands a result with a decision and a
\* vision summary to its caller; no exception leaves it.
C2_AlwaysReturnsResult ==
  \A r \in Reqs :
    /\ req[r].outcome # "threw"
    /\ Returned(r) =>
         /\ req[r].outcome = "returned"
         /\ Cardinality(req[r].result) = 1
         /\ \A res \in req[r].result : res.decision # {} /\ res.vision_summary # {}

\* a call returned although terminate failed twice, the session stayed live
\* and the post was rejected
C2_Witness ==
  \E r \in Reqs :
    /\ Returned(r)
    /\ req[r].terminateCalls = 2
    /\ req[r].session = "live"
    /\ FailedStage(r) = "Invoking"

StageRank(stage) ==
  CASE stage = "Received" -> 0
    [] stage = "Preprocessing" -> 1
    [] stage = "Extracting" -> 2
    [] stage = "Parsing" -> 3
    [] stage = "Prompting" -> 4
    [] stage = "Invoking" -> 5
    [] stage = "Validating" -> 6
    [] stage \in {"Done", "Fallback"} -> 7

ForwardOnly(r) ==
  \A i \in 1..(Len(req[r].stages) - 1) :
    StageRank(req[r].stages[i]) < StageRank(req[r].stages[i + 1])

C4_EveryCallReturns ==
  \A r \in Reqs : (req[r].pc # "idle") ~> Returned(r)

ExtractReturned(r) == req[r].pc \in {"invoke", "returned"}

\* C5 as stated: when extractChartDataWithOCR has returned, worker.terminate
\* was called as often as createWorker succeeded.
C5_ReleasesEqualAcquires ==
  \A r \in Reqs : ExtractReturned(r) => req[r].terminateCalls = req[r].acquires

\* C6 as stated: when extractChartDataWithOCR has returned, the session it
\* acquired is released; no call builds its prompt, invokes the remote
\* service or returns while its OCR session is live.
C6_NoLiveSessionAfterExtract ==
  \A r \in Reqs : ExtractReturned(r) => req[r].session # "live"

\* the calls that hold a request id, with the id
Issued ==
  {<<"analyze", r, req[r].requestId>> : r \in {x \in Reqs : req[x].pc # "idle"}}
    \cup {<<"test", c, conn[c].requestId>> : c \in {x \in Conns : conn[x].pc = "returned"}}

IdsDistinct == \A a, b \in Issued : a[3] = b[3] => a = b

\* a step that issues an id issues one above every id issued before
IdsOrdered ==
  /\ requestCount' >= requestCount
  /\ \A a \in Issued' \ Issued :
       a[3] = requestCount' /\ \A b \in Issued : b[3] < a[3]

C8_EveryResultAnnotated ==
  \A r \in Reqs :
    Returned(r) =>
      \A res \in req[r].result :
        \E m \in res.metadata :
          /\ m.requestId = req[r].requestId
          /\ m.processingTime = "elapsed"
          /\ m.timestamp = "now"

\* C9: a call posts to the remote service at most once; a call that went to
\* Fallback from Invoking has returned after exactly one post, and a call
\* whose inputs were rejected has posted nothing.
C9_AtMostOneRemoteCall ==
  \A r \in Reqs :
    /\ req[r].remoteCalls <= 1
    /\ FailedStage(r) = "Invoking" => Returned(r) /\ req[r].remoteCalls = 1
    /\ FailedStage(r) = "Received" => req[r].remoteCalls = 0

\* a call whose OCR degraded (no worker) posted once, was rejected and returned
C9_Witness ==
  \E r \in Reqs :
    /\ Returned(r)
    /\ FailedStage(r) = "Invoking"
    /\ req[r].remoteCalls = 1
    /\ req[r].acquires = 0

StrictlyAscending(q) == \A i \in 1..(Len(q) - 1) : q[i] < q[i + 1]

\* C10: the priceLevels parseOCRText returns are strictly ascending (sorted,
\* no value twice), at most 15, and are the smallest of the distinct values
\* extracted from the text.
C10_PriceLevelsSortedDistinctCapped ==
  \A out \in pout :
    LET levels == out.extractedData.priceLevels
        extracted == Range(AllPrices(ptext))
    IN /\ StrictlyAscending(levels)
       /\ Len(levels) <= 15
       /\ Range(levels) \subseteq extracted
       /\ Len(levels) = IF Cardinality(extracted) < 15 THEN Cardinality(extracted) ELSE 15
       /\ \A x \in extracted \ Range(levels) : \A y \in Range(levels) : y < x

\* a text with more than 15 distinct prices, one of them extracted twice
C10_Witness ==
  \E out \in pout :
    /\ Len(out.extractedData.priceLevels) = 15
    /\ Cardinality(Range(AllPrices(ptext))) > 15
    /\ Len(AllPrices(ptext)) > Cardinality(Range(AllPrices(ptext)))

\* C11: in every output of parseOCRText, hasData is true exactly when
\* priceLevels is not empty or indicators has a key; the result the catch of
\* extractChartDataWithOCR returns after a failure satisfies the same.
C11_HasDataIffData ==
  /\ \A out \in pout :
       out.extractedData.hasData <=>
         (out.extractedData.priceLevels # <<>> \/ DOMAIN out.extractedData.indicators # {})
  /\ EmptyOCRResult.extractedData.hasData <=>
       (EmptyOCRResult.extractedData.priceLevels # <<>>
          \/ DOMAIN EmptyOCRResult.extractedData.indicators # {})

\* a text that holds an indicator and no price
C11_Witness ==
  \E out \in pout :
    /\ out.extractedData.hasData
    /\ out.extractedData.priceLevels = <<>>
    /\ DOMAIN out.extractedData.indicators # {}

\* the positions of s where a labelled RSI pattern matches
RsiStarts(s) ==
  {j \in 1..Len(s) :
     \E k \in 1..Len(rsiPatterns) : LabeledAt(s, j, rsiPatterns[k], 3, 2, FALSE) # <<>>}

\* the value of the labelled RSI occurrence at position j
RsiValueAt(s, j) ==
  LET k == CHOOSE n \in 1..Len(rsiPatterns) :
             LabeledAt(s, j, rsiPatterns[n], 3, 2, FALSE) # <<>>
  IN parseFloat(ReplaceFirstComma(LabeledAt(s, j, rsiPatterns[k], 3, 2, FALSE)[1]))

\* the positions of the occurrences whose value lies in [0, 100]
ValidRsiStarts(s) ==
  {j \in RsiStarts(s) :
     /\ RsiValueAt(s, j) # <<>>
     /\ RsiValueAt(s, j)[1] >= 0
     /\ RsiValueAt(s, j)[1] <= 100 * Scale}

\* C12 as stated: a recorded RSI lies in [0, 100], and when the text holds a
\* labelled RSI occurrence with a value in range, the first such occurrence
\* is the one recorded, whatever out-of-range occurrence comes before it.
C12_FirstValidRsiRecorded ==
  \A out \in pout :
    /\ "RSI" \in DOMAIN out.extractedData.indicators =>
         /\ out.extractedData.indicators["RSI"] >= 0
         /\ out.extractedData.indicators["RSI"] <= 100 * Scale
    /\ ValidRsiStarts(ptext) # {} =>
         /\ "RSI" \in DOMAIN out.extractedData.indicators
         /\ out.extractedData.indicators["RSI"]
              = RsiValueAt(ptext, SetMin(ValidRsiStarts(ptext)))[1]

\* C13 as stated: every result analyzeTradingChart returns has a decision
\* whose action is BUY, SELL or HOLD, also when it is built from a reply that
\* passed validation.
C13_ActionInSchema ==
  \A r \in Reqs :
    Returned(r) =>
      \A res \in req[r].result :
        /\ res.decision # {}
        /\ \A d \in res.decision : d.action \in {"BUY", "SELL", "HOLD"}

\* C14: an error of preprocessing, OCR or parsing never sends a call to
\* Fallback.  While the OCR worker is set up and runs, the call holds an image
\* (the processed bytes, or the original ones after a preprocessing failure);
\* once extractChartDataWithOCR has returned, the prompt is built and the
\* request is posted; and when the OCR failed before parseOCRText was called,
\* the prompt is built from the empty OCR result (data quality POOR).
C14_EarlyErrorsAbsorbed ==
  \A r \in Reqs :
    /\ FailedStage(r) \notin {"Preprocessing", "Extracting", "Parsing", "Prompting"}
    /\ req[r].pc \in {"createWorker", "setParameters", "recognize"} =>
         req[r].processedImage \in {"processed", "original"}
    /\ (ExtractReturned(r) /\ "Extracting" \in Range(req[r].stages)) =>
         /\ {"Prompting", "Invoking"} \subseteq Range(req[r].stages)
         /\ req[r].remoteCalls = 1
         /\ req[r].prompt.symbol = req[r].input.symbol
    /\ ("Prompting" \in Range(req[r].stages) /\ "Parsing" \notin Range(req[r].stages)) =>
         /\ req[r].prompt.dataQuality = "POOR"
         /\ req[r].prompt.priceLevels = <<>>

\* a call whose OCR failed (parseOCRText was never called) has posted its
\* request with the prompt of the empty OCR result
C14_Witness ==
  \E r \in Reqs :
    /\ req[r].pc = "invoke"
    /\ "Parsing" \notin Range(req[r].stages)
    /\ req[r].prompt.dataQuality = "POOR"
    /\ req[r].remoteCalls = 1

\* C15 as stated: every value of priceLevels is strictly positive; rounding to
\* the precision of line 231 puts no zero into the list.
C15_PriceLevelsPositive ==
  \A out \in pout :
    \A i \in 1..Len(out.extractedData.priceLevels) :
      out.extractedData.priceLevels[i] > 0

\* C16 as stated: two calls of generateTradingPrompt with the same ocrResult,
\* symbol, timeframe, tradeType and extraNotes return the identical document,
\* whenever they are made.
C16_PromptDeterministic ==
  \A i, j \in DOMAIN docs :
    (docs[i].ocrData = docs[j].ocrData /\ docs[i].input = docs[j].input) =>
      docs[i].document = docs[j].document

====
